---- MODULE Spec2Model ----
(***************************************************************************)
(* cedar-authorize (src/main.rs): a one-shot command that parses a         *)
(* principal, action, resource, context, policy set and entity store,      *)
(* calls the Cedar authorizer once, and prints either the decision or a    *)
(* JSON record of per-stage timings.                                       *)
(*                                                                         *)
(* One process invocation is one "run".  The model executes a first run    *)
(* and then a second run on the same command line (the timing flag may     *)
(* differ), so that properties relating two runs can be stated.            *)
(***************************************************************************)
EXTENDS Integers, Sequences, FiniteSets, TLC

\* ------------------------------------------------------------------ bounds
\* The clock advances in quanta of TickNanos nanoseconds; one run lasts at
\* most MaxRunTicks quanta.
TickNanos == 600
MaxRunTicks == 3

\* Duration::as_micros: 1000 nanoseconds per microsecond.
NanosPerMicro == 1000

\* ------------------------------------------------------- command-line values
None == "<none>"

BadUid == "alice"
DefaultPrincipal == "User::\"alice\""
DefaultAction == "Action::\"update\""
DefaultResource == "Photo::\"flower.jpg\""

DefaultPolicy == "permit(principal in User::\"alice\", action in [Action::\"update\", Action::\"delete\"], resource == Photo::\"flower.jpg\") when { context.mfa_authenticated == true && context.request_client_ip == \"222.222.222.222\" };"
EmptyPolicy == ""
ForbidPolicy == "forbid(principal, action, resource);"
BadPolicy == "permit("

DefaultEntities == "[]"
BadEntities == "[{]"

DefaultContext == "{\"mfa_authenticated\": true, \"request_client_ip\": \"222.222.222.222\", \"oidc_scope\": \"profile\"}"
EmptyContext == "{}"
NoMfaContext == "{\"mfa_authenticated\": false, \"request_client_ip\": \"222.222.222.222\"}"
NotJsonContext == "{not json"
ArrayContext == "[]"

\* struct Args: every command line the model runs.
Args ==
    [ principal : {None, BadUid},
      action    : {None, BadUid},
      resource  : {None, BadUid},
      policy    : {None, EmptyPolicy, ForbidPolicy, BadPolicy},
      entities  : {DefaultEntities, BadEntities},
      context   : {None, EmptyContext, NoMfaContext, NotJsonContext, ArrayContext},
      timing    : BOOLEAN ]

\* Option::unwrap_or
UnwrapOr(opt, default) == IF opt = None THEN default ELSE opt

\* ------------------------------------------------------------ library calls
Ok(v) == [ok |-> TRUE, val |-> v]
Err == [ok |-> FALSE, val |-> None]

\* EntityUid::from_str: Type::"key"
EntityUidFromStr(s) ==
    CASE s = DefaultPrincipal -> Ok([ty |-> "User", id |-> "alice"])
      [] s = DefaultAction    -> Ok([ty |-> "Action", id |-> "update"])
      [] s = DefaultResource  -> Ok([ty |-> "Photo", id |-> "flower.jpg"])
      [] OTHER                -> Err

NoMembers == [k \in {} |-> ""]

\* serde_json::from_str::<serde_json::Value>
JsonFromStr(s) ==
    CASE s = DefaultContext ->
            Ok([kind |-> "object",
                members |-> [mfa_authenticated |-> "true",
                             request_client_ip |-> "\"222.222.222.222\"",
                             oidc_scope |-> "\"profile\""]])
      [] s = EmptyContext -> Ok([kind |-> "object", members |-> NoMembers])
      [] s = NoMfaContext ->
            Ok([kind |-> "object",
                members |-> [mfa_authenticated |-> "false",
                             request_client_ip |-> "\"222.222.222.222\""]])
      [] s = ArrayContext -> Ok([kind |-> "array", members |-> NoMembers])
      [] OTHER -> Err

\* Mutant of ContextFromJsonValue: any JSON value is taken as a context.
ContextFromJsonValueAny(json) == Ok(json.members)

\* Context::from_json_value(json, None): the top level must be an object.
ContextFromJsonValue(json) ==
    IF json.kind = "object" THEN Ok(json.members) ELSE Err

\* PolicySet::from_str.  A policy is its effect, its scope and whether it
\* carries the `when` guard on context.mfa_authenticated / request_client_ip.
PolicySetFromStr(s) ==
    CASE s = DefaultPolicy ->
            Ok(<<[effect |-> "permit", anyScope |-> FALSE,
                  principal |-> {"alice"}, action |-> {"update", "delete"},
                  resource |-> {"flower.jpg"}, guarded |-> TRUE]>>)
      [] s = EmptyPolicy -> Ok(<<>>)
      [] s = ForbidPolicy ->
            Ok(<<[effect |-> "forbid", anyScope |-> TRUE,
                  principal |-> {}, action |-> {}, resource |-> {},
                  guarded |-> FALSE]>>)
      [] OTHER -> Err

\* Entities::from_json_str(s, None)
EntitiesFromJsonStr(s) ==
    IF s = DefaultEntities THEN Ok({}) ELSE Err

\* Request::new(principal, action, resource, context, None).  No schema is
\* supplied; whether the library rejects the combination is its own affair
\* (requestValid), fixed for both runs.
RequestNew(principal, action, resource, context, valid) ==
    IF valid
    THEN Ok([principal |-> principal, action |-> action,
             resource |-> resource, context |-> context])
    ELSE Err

\* Evaluation of one policy against the request: "true", "false" or "error"
\* (an attribute the guard reads is missing from the context).
PolicyMatches(p, request) ==
    LET inScope == \/ p.anyScope
                   \/ /\ request.principal.id \in p.principal
                      /\ request.action.id \in p.action
                      /\ request.resource.id \in p.resource
        ctx == request.context
    IN  IF ~inScope THEN "false"
        ELSE IF ~p.guarded THEN "true"
        ELSE IF "mfa_authenticated" \notin DOMAIN ctx THEN "error"
        ELSE IF ctx["mfa_authenticated"] # "true" THEN "false"
        ELSE IF "request_client_ip" \notin DOMAIN ctx THEN "error"
        ELSE IF ctx["request_client_ip"] = "\"222.222.222.222\"" THEN "true"
        ELSE "false"

\* format!("{:?}", response.decision())
DebugFmt(decision) ==
    IF decision = "Decision::Allow" THEN "Allow" ELSE "Deny"

\* Mutant of AsMicros: rounds to the nearest microsecond.
AsMicrosRounded(nanos) == (nanos + NanosPerMicro \div 2) \div NanosPerMicro

\* Duration::as_micros: whole microseconds, truncated.
AsMicros(nanos) == nanos \div NanosPerMicro

\* --------------------------------------------------------------------- state
VARIABLES
    args,          \* struct Args, as parsed from the command line
    requestValid,  \* whether Request::new accepts a well-formed request
    run,           \* 1: first invocation, 2: second invocation
    prev,          \* what the first invocation did (None during run 1)
    pc,            \* position of the run in main / authorize_with_timing
    call,          \* the arguments main passes to authorize_with_timing
    now,           \* the monotonic clock (Instant), in nanoseconds
    total_start,   \* the Instant read at line 60
    local,         \* the typed values bound by `let` so far
    us,            \* the durations recorded so far, in microseconds
    iv,            \* the measured intervals [start, end], in nanoseconds
    executed,      \* the stages entered so far, in order
    calls,         \* number of calls of Authorizer::is_authorized
    stdout,        \* lines written to standard output
    stderr         \* panic messages written to standard error

vars == <<args, requestValid, run, prev, pc, call, now, total_start, local, us,
          iv, executed, calls, stdout, stderr>>

NoFields == [k \in {} |-> 0]

MaxNow == MaxRunTicks * TickNanos

\* The delays the clock may advance by from `from` within the run's budget.
Delays(from) == {d * TickNanos : d \in 0..((MaxNow - from) \div TickNanos)}

Bind(f, k, v) == [x \in DOMAIN f \cup {k} |-> IF x = k THEN v ELSE f[x]]

Init ==
    /\ args \in Args
    /\ requestValid \in BOOLEAN
    /\ run = 1
    /\ prev = None
    /\ pc = "main"
    /\ call = NoFields
    /\ now = 0
    /\ total_start = 0
    /\ local = NoFields
    /\ us = NoFields
    /\ iv = NoFields
    /\ executed = <<>>
    /\ calls = 0
    /\ stdout = <<>>
    /\ stderr = <<>>

\* Mutant of IsAuthorized: the engine denies once the run has used up time.
IsAuthorizedWithinBudget(request, policy_set, entities) ==
    LET idx == 1..Len(policy_set)
        sat(e) == {i \in idx : /\ policy_set[i].effect = e
                               /\ PolicyMatches(policy_set[i], request) = "true"}
    IN  [decision |-> IF sat("permit") # {} /\ sat("forbid") = {} /\ now = 0
                      THEN "Decision::Allow" ELSE "Decision::Deny",
         errors |-> {i \in idx : PolicyMatches(policy_set[i], request) = "error"}]

\* Authorizer::is_authorized(&request, &policy_set, &entities) -> Response.
\* The Response carries the decision and the diagnostics (the policies whose
\* evaluation failed); it is not a Result.
IsAuthorized(request, policy_set, entities) ==
    LET idx == 1..Len(policy_set)
        sat(e) == {i \in idx : /\ policy_set[i].effect = e
                               /\ PolicyMatches(policy_set[i], request) = "true"}
        errs == {i \in idx : PolicyMatches(policy_set[i], request) = "error"}
    IN  [decision |-> IF sat("permit") # {} /\ sat("forbid") = {}
                      THEN "Decision::Allow" ELSE "Decision::Deny",
         errors |-> errs]

\* .expect(msg) on an Err: the thread panics, the message goes to standard
\* error and the process ends.
Panic(msg) ==
    /\ pc' = "panicked"
    /\ stderr' = Append(stderr, msg)

\* main, lines 113-132: defaults, then the call of authorize_with_timing.
Main ==
    /\ pc = "main"
    /\ call' = [principal |-> UnwrapOr(args.principal, DefaultPrincipal),
                action    |-> UnwrapOr(args.action, DefaultAction),
                resource  |-> UnwrapOr(args.resource, DefaultResource),
                policies  |-> UnwrapOr(args.policy, DefaultPolicy),
                entities  |-> args.entities,
                context   |-> UnwrapOr(args.context, DefaultContext)]
    /\ pc' = "total_start"
    /\ UNCHANGED <<args, requestValid, run, prev, now, total_start, local, us,
                   iv, executed, calls, stdout, stderr>>

\* line 60
TotalStart ==
    /\ pc = "total_start"
    /\ total_start' = now
    /\ pc' = "parse_principal"
    /\ UNCHANGED <<args, requestValid, run, prev, call, now, local, us, iv,
                   executed, calls, stdout, stderr>>

\* An untimed identifier stage (lines 63-65): parse `text`, bind it to `name`,
\* go on to `next`.
ParseUid(at, name, text, msg, next) ==
    /\ pc = at
    /\ \E work \in Delays(now) : now' = now + work
    /\ executed' = Append(executed, name)
    /\ LET r == EntityUidFromStr(text)
       IN  IF r.ok
           THEN /\ local' = Bind(local, name, r.val)
                /\ pc' = next
                /\ UNCHANGED stderr
           ELSE /\ Panic(msg)
                /\ UNCHANGED local
    /\ UNCHANGED <<args, requestValid, run, prev, call, total_start, us, iv,
                   calls, stdout>>

\* line 63
ParsePrincipal ==
    ParseUid("parse_principal", "principal", call.principal,
             "failed to parse principal", "parse_action")

\* Mutant of ParseAction: the panic message is copied from the line above.
ParseActionCopiedMessage ==
    ParseUid("parse_action", "action", call.action,
             "failed to parse principal", "parse_resource")

\* line 64
ParseAction ==
    ParseUid("parse_action", "action", call.action,
             "failed to parse action", "parse_resource")

\* line 65
ParseResource ==
    ParseUid("parse_resource", "resource", call.resource,
             "failed to parse resource", "parse_context")

\* A timed stage: Instant::now() at `start`, the stage's work, then
\* start.elapsed().as_micros() at `end`.  `r` is the stage's result.
Timed(at, name, field, start, end, r, msg, next) ==
    /\ pc = at
    /\ now' = end
    /\ executed' = Append(executed, name)
    /\ IF r.ok
       THEN /\ local' = Bind(local, name, r.val)
            /\ us' = Bind(us, field, AsMicros(end - start))
            /\ iv' = Bind(iv, name, [start |-> start, end |-> end])
            /\ pc' = next
            /\ UNCHANGED stderr
       ELSE /\ Panic(msg)
            /\ UNCHANGED <<local, us, iv>>
    /\ UNCHANGED <<args, requestValid, run, prev, call, total_start, calls,
                   stdout>>

\* lines 68-73
ParseContext ==
    \E gap \in Delays(now) : \E work \in Delays(now + gap) :
        LET context_str == UnwrapOr(call.context, EmptyContext)
            context_json == JsonFromStr(context_str)
            context == IF context_json.ok
                       THEN ContextFromJsonValue(context_json.val) ELSE Err
        IN  Timed("parse_context", "context", "parse_context_us",
                  now + gap, now + gap + work, context,
                  IF context_json.ok THEN "failed to create context"
                                     ELSE "failed to parse context JSON",
                  "build_request")

\* lines 76-79
BuildRequest ==
    \E gap \in Delays(now) : \E work \in Delays(now + gap) :
        Timed("build_request", "request", "build_request_us",
              now + gap, now + gap + work,
              RequestNew(local["principal"], local["action"],
                         local["resource"], local["context"], requestValid),
              "failed to create request", "parse_policies")

\* Mutant of ParsePolicies: a policy text that does not parse is replaced by
\* the empty policy set (unwrap_or_default) and the run goes on.
ParsePoliciesLenient ==
    \E gap \in Delays(now) : \E work \in Delays(now + gap) :
        LET r == PolicySetFromStr(call.policies)
        IN  Timed("parse_policies", "policy_set", "parse_policy_us",
                  now + gap, now + gap + work,
                  IF r.ok THEN r ELSE Ok(<<>>),
                  "failed to parse policies", "parse_entities")

\* lines 82-84
ParsePolicies ==
    \E gap \in Delays(now) : \E work \in Delays(now + gap) :
        Timed("parse_policies", "policy_set", "parse_policy_us",
              now + gap, now + gap + work,
              PolicySetFromStr(call.policies),
              "failed to parse policies", "parse_entities")

\* Mutant of ParseEntities: the elapsed time is read off policy_start.
ParseEntitiesFromPolicyStart ==
    \E gap \in Delays(now) : \E work \in Delays(now + gap) :
        Timed("parse_entities", "entities", "parse_entities_us",
              iv["policy_set"].start, now + gap + work,
              EntitiesFromJsonStr(call.entities),
              "failed to parse entities", "authorize")

\* lines 87-89
ParseEntities ==
    \E gap \in Delays(now) : \E work \in Delays(now + gap) :
        Timed("parse_entities", "entities", "parse_entities_us",
              now + gap, now + gap + work,
              EntitiesFromJsonStr(call.entities),
              "failed to parse entities", "authorize")

\* Mutant of Authorize: the call is issued a second time (a retry).
AuthorizeRetry ==
    /\ pc = "authorize"
    /\ \E gap \in Delays(now) : \E work \in Delays(now + gap) :
        LET auth_start == now + gap
            end == auth_start + work
            response == IsAuthorized(local["request"], local["policy_set"],
                                     local["entities"])
        IN  /\ now' = end
            /\ local' = Bind(local, "response", response)
            /\ us' = Bind(us, "authorization_us", AsMicros(end - auth_start))
            /\ iv' = Bind(iv, "authorization",
                          [start |-> auth_start, end |-> end])
    /\ calls' = calls + 2
    /\ executed' = Append(executed, "authorization")
    /\ pc' = "total_elapsed"
    /\ UNCHANGED <<args, requestValid, run, prev, call, total_start, stdout,
                   stderr>>

\* lines 92-95: the single call of the decision capability.
Authorize ==
    /\ pc = "authorize"
    /\ \E gap \in Delays(now) : \E work \in Delays(now + gap) :
        LET auth_start == now + gap
            end == auth_start + work
            response == IsAuthorized(local["request"], local["policy_set"],
                                     local["entities"])
        IN  /\ now' = end
            /\ local' = Bind(local, "response", response)
            /\ us' = Bind(us, "authorization_us", AsMicros(end - auth_start))
            /\ iv' = Bind(iv, "authorization",
                          [start |-> auth_start, end |-> end])
    /\ calls' = calls + 1
    /\ executed' = Append(executed, "authorization")
    /\ pc' = "total_elapsed"
    /\ UNCHANGED <<args, requestValid, run, prev, call, total_start, stdout,
                   stderr>>

\* Mutant of TotalElapsed: the record's decision is formatted with Display
\* and lower-cased instead of with Debug.
TotalElapsedLowerCase ==
    /\ pc = "total_elapsed"
    /\ \E gap \in Delays(now) :
        LET end == now + gap
            total_us == AsMicros(end - total_start)
        IN  /\ now' = end
            /\ us' = Bind(us, "total_us", total_us)
            /\ iv' = Bind(iv, "total", [start |-> total_start, end |-> end])
            /\ local' = Bind(local, "timing",
                 [decision          |-> IF local["response"].decision
                                           = "Decision::Allow"
                                        THEN "allow" ELSE "deny",
                  parse_policy_us   |-> us["parse_policy_us"],
                  parse_context_us  |-> us["parse_context_us"],
                  parse_entities_us |-> us["parse_entities_us"],
                  build_request_us  |-> us["build_request_us"],
                  authorization_us  |-> us["authorization_us"],
                  total_us          |-> total_us])
    /\ pc' = "print"
    /\ UNCHANGED <<args, requestValid, run, prev, call, total_start, executed,
                   calls, stdout, stderr>>

\* lines 97-109: the total, the TimingOutput record, the return to main.
TotalElapsed ==
    /\ pc = "total_elapsed"
    /\ \E gap \in Delays(now) :
        LET end == now + gap
            total_us == AsMicros(end - total_start)
        IN  /\ now' = end
            /\ us' = Bind(us, "total_us", total_us)
            /\ iv' = Bind(iv, "total", [start |-> total_start, end |-> end])
            /\ local' = Bind(local, "timing",
                 [decision          |-> DebugFmt(local["response"].decision),
                  parse_policy_us   |-> us["parse_policy_us"],
                  parse_context_us  |-> us["parse_context_us"],
                  parse_entities_us |-> us["parse_entities_us"],
                  build_request_us  |-> us["build_request_us"],
                  authorization_us  |-> us["authorization_us"],
                  total_us          |-> total_us])
    /\ pc' = "print"
    /\ UNCHANGED <<args, requestValid, run, prev, call, total_start, executed,
                   calls, stdout, stderr>>

\* Mutant of PrintResult: the `else` is missing, so timing mode prints the
\* record and then the decision.
PrintResultBoth ==
    /\ pc = "print"
    /\ stdout' = (IF args.timing
                  THEN Append(stdout, [format |-> "json",
                                       body |-> local["timing"]])
                  ELSE stdout)
                 \o <<[format |-> "debug",
                       body |-> [decision |->
                                   DebugFmt(local["response"].decision)]]>>
    /\ pc' = "exit"
    /\ UNCHANGED <<args, requestValid, run, prev, call, now, total_start,
                   local, us, iv, executed, calls, stderr>>

\* main, lines 134-138: one println!, chosen by the timing flag.
PrintResult ==
    /\ pc = "print"
    /\ stdout' = Append(stdout,
                   IF args.timing
                   THEN [format |-> "json", body |-> local["timing"]]
                   ELSE [format |-> "debug",
                         body |-> [decision |->
                                     DebugFmt(local["response"].decision)]])
    /\ pc' = "exit"
    /\ UNCHANGED <<args, requestValid, run, prev, call, now, total_start,
                   local, us, iv, executed, calls, stderr>>

Terminated == pc \in {"exit", "panicked"}

\* What an invocation did, as an observer of the process sees it.
Summary ==
    [timing   |-> args.timing,
     pc       |-> pc,
     executed |-> executed,
     calls    |-> calls,
     stderr   |-> stderr,
     formats  |-> [i \in DOMAIN stdout |-> stdout[i].format],
     fields   |-> [i \in DOMAIN stdout |-> DOMAIN stdout[i].body],
     decision |-> [i \in DOMAIN stdout |-> stdout[i].body.decision]]

\* The command is invoked a second time with the same inputs; only the
\* timing flag may differ.  A new process starts from scratch.
Rerun ==
    /\ run = 1
    /\ Terminated
    /\ run' = 2
    /\ prev' = Summary
    /\ \E t \in BOOLEAN : args' = [args EXCEPT !.timing = t]
    /\ pc' = "main"
    /\ call' = NoFields
    /\ now' = 0
    /\ total_start' = 0
    /\ local' = NoFields
    /\ us' = NoFields
    /\ iv' = NoFields
    /\ executed' = <<>>
    /\ calls' = 0
    /\ stdout' = <<>>
    /\ stderr' = <<>>
    /\ UNCHANGED requestValid

Next ==
    \/ Main
    \/ TotalStart
    \/ ParsePrincipal
    \/ ParseAction
    \/ ParseResource
    \/ ParseContext
    \/ BuildRequest
    \/ ParsePolicies
    \/ ParseEntities
    \/ Authorize
    \/ TotalElapsed
    \/ PrintResult
    \/ Rerun

Spec == Init /\ [][Next]_vars

\* ------------------------------------------------------------------- claims
\* The stages in the order authorize_with_timing lists them.
StageOrder ==
    <<"principal", "action", "resource", "context", "request", "policy_set",
      "entities", "authorization">>

TimedStages == {"context", "request", "policy_set", "entities", "authorization"}

TimingFields ==
    {"decision", "parse_policy_us", "parse_context_us", "parse_entities_us",
     "build_request_us", "authorization_us", "total_us"}

\* The inputs of the command line that make a stage fail.
Malformed(stage) ==
    CASE stage = "principal"  -> args.principal = BadUid
      [] stage = "action"     -> args.action = BadUid
      [] stage = "resource"   -> args.resource = BadUid
      [] stage = "context"    -> args.context \in {NotJsonContext, ArrayContext}
      [] stage = "request"    -> ~requestValid
      [] stage = "policy_set" -> args.policy = BadPolicy
      [] stage = "entities"   -> args.entities = BadEntities
      [] OTHER                -> FALSE

\* The subject of the error a panic message reports.
SubjectOf(msg) ==
    CASE msg = "failed to parse principal"    -> "principal"
      [] msg = "failed to parse action"       -> "action"
      [] msg = "failed to parse resource"     -> "resource"
      [] msg = "failed to parse context JSON" -> "context"
      [] msg = "failed to create context"     -> "context"
      [] msg = "failed to create request"     -> "request"
      [] msg = "failed to parse policies"     -> "policy_set"
      [] msg = "failed to parse entities"     -> "entities"
      [] OTHER                                -> "unknown"

IsPrefix(s, t) == Len(s) <= Len(t) /\ \A i \in 1..Len(s) : s[i] = t[i]

AnyMalformed == \E i \in 1..7 : Malformed(StageOrder[i])

\* The earliest stage, in StageOrder, that the inputs make fail.
FirstMalformed ==
    StageOrder[CHOOSE i \in 1..7 :
                  /\ Malformed(StageOrder[i])
                  /\ \A j \in 1..(i - 1) : ~Malformed(StageOrder[j])]

\* C1: a stage that fails is the last stage the run enters: the run is then
\* in its panicked end state, the decision capability has not been called
\* and standard output is empty; a panicked run has failed at its last stage.
C1_FailFast ==
    /\ \A i \in 1..Len(executed) :
          Malformed(executed[i]) =>
             /\ i = Len(executed)
             /\ pc = "panicked"
             /\ calls = 0
             /\ stdout = <<>>
    /\ pc = "panicked" =>
          /\ executed # <<>>
          /\ Malformed(executed[Len(executed)])
          /\ stdout = <<>>

\* C1 witness: the policy stage failed with malformed entities still unread.
C1_Witness ==
    /\ pc = "panicked"
    /\ executed = SubSeq(StageOrder, 1, 6)
    /\ args.policy = BadPolicy
    /\ args.entities = BadEntities

\* C2: a printed decision means the engine reported no execution failure:
\* whenever the response carries evaluation errors the run prints nothing.
C2_EngineFailureFatal ==
    stdout # <<>> => local["response"].errors = {}

\* C3: is_authorized is called at most once in any run, exactly once by the
\* time a run whose inputs are all well-formed ends, and never in a run in
\* which some stage fails.
C3_CalledOnce ==
    /\ calls <= 1
    /\ (Terminated /\ ~AnyMalformed) => (pc = "exit" /\ calls = 1)
    /\ AnyMalformed => calls = 0
    /\ pc \in {"total_elapsed", "print", "exit"} => calls = 1

\* C3 witness: a successful run has ended after its one call.
C3_Witness == pc = "exit" /\ calls = 1 /\ ~AnyMalformed

\* C4: a run with the timing flag set and a run with it cleared, on the same
\* inputs, enter the same stages in the same order, end the same way (same
\* end state, same error) and print the same decision text.
C4_TimingSideChannel ==
    (run = 2 /\ Terminated /\ prev.timing # args.timing) =>
        /\ prev.executed = executed
        /\ prev.calls = calls
        /\ prev.pc = pc
        /\ prev.stderr = stderr
        /\ prev.decision = Summary.decision

\* C4 witness: both runs printed, one in each mode, with different clocks.
C4_Witness ==
    /\ run = 2
    /\ pc = "exit"
    /\ prev.timing /\ ~args.timing
    /\ prev.pc = "exit"
    /\ us["total_us"] > 0

\* C5: a successful run has written exactly one line: the decision's name
\* when the timing flag is clear, the timing record (that decision as text
\* and the six recorded durations) when it is set; nothing is written before
\* the run's last step.
C5_OneLine ==
    /\ pc = "exit" =>
          /\ Len(stdout) = 1
          /\ stdout[1].body.decision \in {"Allow", "Deny"}
          /\ stdout[1].body.decision = "Allow"
                <=> local["response"].decision = "Decision::Allow"
          /\ IF args.timing
             THEN /\ stdout[1].format = "json"
                  /\ DOMAIN stdout[1].body = TimingFields
                  /\ \A f \in TimingFields \ {"decision"} :
                        stdout[1].body[f] = us[f]
             ELSE /\ stdout[1].format = "debug"
                  /\ DOMAIN stdout[1].body = {"decision"}
    /\ pc # "exit" => stdout = <<>>

\* C5 witness: a timing-mode run printed an Allow record.
C5_Witness ==
    /\ pc = "exit"
    /\ args.timing
    /\ stdout[1].body.decision = "Allow"

\* C6: the total is at least the authorization duration and at least the sum
\* of the five recorded stage durations.
C6_TotalCovers ==
    "total_us" \in DOMAIN us =>
        /\ us["total_us"] >= us["authorization_us"]
        /\ us["total_us"] >= us["parse_context_us"] + us["build_request_us"]
                             + us["parse_policy_us"] + us["parse_entities_us"]
                             + us["authorization_us"]

\* C6 witness: two stages each lost a fraction to truncation and the total
\* is a whole microsecond.
C6_Witness ==
    /\ pc = "exit"
    /\ us["total_us"] = 1
    /\ us["authorization_us"] = 0
    /\ iv["authorization"].end > iv["authorization"].start
    /\ iv["policy_set"].end > iv["policy_set"].start

\* C7 as stated: malformed context ends the run with an error whose subject
\* is Context and no output, whatever the other inputs are.
C7_ContextErrorAlways ==
    (Terminated /\ args.context \in {NotJsonContext, ArrayContext}) =>
        /\ pc = "panicked"
        /\ stdout = <<>>
        /\ Len(stderr) = 1
        /\ SubjectOf(stderr[1]) = "context"

\* C7 amended: malformed context ends the run with an error and no output
\* whatever the other inputs are; the error's subject is Context whenever
\* principal, action and resource are well-formed.
C7_ContextError ==
    (Terminated /\ args.context \in {NotJsonContext, ArrayContext}) =>
        /\ pc = "panicked"
        /\ stdout = <<>>
        /\ Len(stderr) = 1
        /\ (/\ ~Malformed("principal")
            /\ ~Malformed("action")
            /\ ~Malformed("resource")) => SubjectOf(stderr[1]) = "context"

\* C7 witness: a JSON array as context was rejected, with malformed policy
\* and entities besides.
C7_Witness ==
    /\ pc = "panicked"
    /\ args.context = ArrayContext
    /\ args.policy = BadPolicy
    /\ args.entities = BadEntities
    /\ stderr = <<"failed to create context">>

\* C8: two runs on identical inputs (timing flag included) end the same way:
\* same stages, same end state, same error, same decision text, and the lines
\* they print have the same format and the same fields.
C8_Deterministic ==
    (run = 2 /\ Terminated /\ prev.timing = args.timing) =>
        /\ prev.executed = executed
        /\ prev.calls = calls
        /\ prev.pc = pc
        /\ prev.stderr = stderr
        /\ prev.decision = Summary.decision
        /\ prev.formats = Summary.formats
        /\ prev.fields = Summary.fields

\* C8 witness: the second of two timing-mode runs printed its record after
\* a run of non-zero length.
C8_Witness ==
    /\ run = 2
    /\ pc = "exit"
    /\ prev.timing /\ args.timing
    /\ us["total_us"] > 0

\* C9: the stages entered are a prefix of the fixed order (so each at most
\* once); every stage but the last entered has completed successfully; the
\* measured intervals lie one after the other in that order; the total
\* interval starts before any stage is entered and, once measured, contains
\* every stage's interval, the decision invocation's included.
C9_StageOrder ==
    /\ IsPrefix(executed, StageOrder)
    /\ \A i \in 1..(Len(executed) - 1) :
          /\ ~Malformed(executed[i])
          /\ executed[i] \in DOMAIN local
    /\ pc \in {"main", "total_start"} => executed = <<>>
    /\ \A i, j \in 1..Len(executed) :
          (i < j /\ executed[i] \in DOMAIN iv /\ executed[j] \in DOMAIN iv) =>
             /\ iv[executed[i]].start <= iv[executed[i]].end
             /\ iv[executed[i]].end <= iv[executed[j]].start
    /\ \A s \in DOMAIN iv : s \in TimedStages => total_start <= iv[s].start
    /\ "total" \in DOMAIN iv =>
          /\ executed = StageOrder
          /\ iv["total"].start = total_start
          /\ \A s \in TimedStages :
                /\ s \in DOMAIN iv
                /\ iv["total"].start <= iv[s].start
                /\ iv[s].end <= iv["total"].end

\* C9 witness: every stage ran, two of them took time, with a gap between.
C9_Witness ==
    /\ pc = "exit"
    /\ executed = StageOrder
    /\ iv["context"].end > iv["context"].start
    /\ iv["entities"].start > iv["context"].end
    /\ iv["entities"].end > iv["entities"].start

\* C10: a run that ends in an error reports exactly one error, whose subject
\* is the earliest stage, in the order principal, action, resource, context,
\* request, policy, entities, that the inputs make fail; a run with a
\* malformed input ends in an error, and no other run reports one.
C10_EarliestError ==
    /\ pc = "panicked" =>
          /\ AnyMalformed
          /\ Len(stderr) = 1
          /\ SubjectOf(stderr[1]) = FirstMalformed
    /\ pc # "panicked" => stderr = <<>>
    /\ (Terminated /\ AnyMalformed) => pc = "panicked"

\* C10 witness: malformed policy and malformed entities report the policy.
C10_Witness ==
    /\ pc = "panicked"
    /\ args.policy = BadPolicy
    /\ args.entities = BadEntities
    /\ stderr = <<"failed to parse policies">>

====
